---- MODULE Spec2Model ----
(***************************************************************************)
(* A model of src/raw.rs: the raw I/O buffer handle (RawIobuf), its        *)
(* refcounted allocation header, the cursor algebra and the typed          *)
(* peek/poke/fill/consume family.                                          *)
(*                                                                         *)
(* Scaling.  TLC's integers are 32 bits wide, so the u32 cursor words of   *)
(* the source are modelled as U32Bits-bit words and uint/u64 as words of   *)
(* twice that width (as on the 64-bit target).  Every cursor computation   *)
(* wraps modulo U32Mod exactly where the source's u32 arithmetic wraps.    *)
(* Bytes are real 8-bit bytes; a value of a Prim type T is its bit         *)
(* pattern, the sequence of its size_of(T) bytes, least significant first. *)
(*                                                                         *)
(* Build.  cfg!(debug) is false in the build modelled, so the              *)
(* debug_check_range_* calls of the unsafe_* functions do nothing.         *)
(***************************************************************************)
EXTENDS Integers, Sequences, FiniteSets, TLC

\* ------------------------------------------------------------------ bounds
U32Bits == 8
MaxLen == 2
MaxHandles == 4
MaxAllocs == 2
MaxTasks == 2

\* --------------------------------------------------------------- constants
U32Mod == 2 ^ U32Bits
U64Mod == 2 ^ (2 * U32Bits)
TARGET_WORD_SIZE == 2 * U32Bits
MAX_BUFFER_LEN == (2 ^ (U32Bits - 1) - 1) - 3 * TARGET_WORD_SIZE
OWNED_MASK == 2 ^ (U32Bits - 1)
HeaderSize == 3 * (TARGET_WORD_SIZE \div 8)

Handles == 1 .. MaxHandles
Allocs == 1 .. MaxAllocs
Tasks == 1 .. MaxTasks
\* The byte values buffers are created with and poked with.
ByteVals == {1, 128}
\* Argument values of the cursor operations: the small ones and two huge ones.
Args == (0 .. MaxLen + 1) \cup {OWNED_MASK, U32Mod - 1}
\* Window offsets and lengths: the small ones and a huge one.
Offs == (0 .. MaxLen) \cup {U32Mod - 1}
\* Requested buffer lengths: the small ones and one that is too big.
Lens == (0 .. MaxLen) \cup {MAX_BUFFER_LEN + 1}

\* ------------------------------------------------------- the handle (pure)
\* A RawIobuf: buf is the allocation it points into (0 is the null pointer).
RawIobuf(buf, lmo, lo, hi, hi_max) ==
  [buf |-> buf, lo_min_and_owned_bit |-> lmo, lo |-> lo, hi |-> hi, hi_max |-> hi_max]

empty == RawIobuf(0, 0, 0, 0, 0)

lo_min(h) == h.lo_min_and_owned_bit % OWNED_MASK

is_owned(h) == h.lo_min_and_owned_bit >= OWNED_MASK

\* self.lo_min_and_owned_bit &= OWNED_MASK; self.lo_min_and_owned_bit |= new_value
set_lo_min(h, new_value) ==
  [h EXCEPT !.lo_min_and_owned_bit =
     IF new_value >= OWNED_MASK \/ ~is_owned(h) THEN new_value ELSE OWNED_MASK + new_value]

len(h) == (h.hi - h.lo) % U32Mod

cap(h) == (h.hi_max - lo_min(h)) % U32Mod

\* pos and len are u64: the sum wraps at the u64 width.
check_range(h, pos, n) == ((pos + n) % U64Mod) <= len(h)

check_range_u32(h, pos, n) == check_range(h, pos, n)

narrow(h) == [set_lo_min(h, h.lo) EXCEPT !.hi_max = h.hi]

unsafe_advance(h, n) == [h EXCEPT !.lo = (h.lo + n) % U32Mod]

unsafe_extend(h, n) == [h EXCEPT !.hi = (h.hi + n) % U32Mod]

unsafe_resize(h, n) == [h EXCEPT !.hi = (h.lo + n) % U32Mod]

rewind(h) == [h EXCEPT !.lo = lo_min(h)]

reset(h) == [h EXCEPT !.lo = lo_min(h), !.hi = h.hi_max]

flip_lo(h) == [h EXCEPT !.hi = h.lo, !.lo = lo_min(h)]

flip_hi(h) == [h EXCEPT !.lo = h.hi, !.hi = h.hi_max]

unsafe_sub_window(h, pos, n) == unsafe_resize(flip_hi(unsafe_resize(h, pos)), n)

unsafe_sub_window_from(h, pos) == flip_hi(unsafe_resize(h, pos))

unsafe_sub_window_to(h, n) == unsafe_resize(h, n)

unsafe_sub(h, pos, n) == narrow(unsafe_sub_window(h, pos, n))

unsafe_sub_from(h, pos) == narrow(unsafe_sub_window_from(h, pos))

unsafe_sub_to(h, n) == narrow(unsafe_sub_window_to(h, n))

\* A Result<(), ()> together with the handle the call leaves behind.
Ok(h) == [ok |-> TRUE, h |-> h]
Err(h) == [ok |-> FALSE, h |-> h]

advance(h, n) == IF check_range_u32(h, 0, n) THEN Ok(unsafe_advance(h, n)) ELSE Err(h)

\* A faulty extend: it moves hi before it checks the limit.
extend_then_check(h, n) ==
  IF h.hi + n > h.hi_max THEN Err(unsafe_extend(h, n)) ELSE Ok(unsafe_extend(h, n))

extend(h, n) == IF h.hi + n > h.hi_max THEN Err(h) ELSE Ok(unsafe_extend(h, n))

\* A faulty resize: it compares the sum as a u32, after it has wrapped.
resize_wrapping(h, n) ==
  IF (h.lo + n) % U32Mod > h.hi_max THEN Err(h) ELSE Ok([h EXCEPT !.hi = (h.lo + n) % U32Mod])

resize(h, n) == IF h.lo + n > h.hi_max THEN Err(h) ELSE Ok([h EXCEPT !.hi = (h.lo + n) % U32Mod])

sub_window(h, pos, n) ==
  IF check_range_u32(h, pos, n) THEN Ok(unsafe_sub_window(h, pos, n)) ELSE Err(h)

sub_window_from(h, pos) ==
  IF check_range_u32(h, pos, 0) THEN Ok(unsafe_sub_window_from(h, pos)) ELSE Err(h)

sub_window_to(h, n) ==
  IF check_range_u32(h, 0, n) THEN Ok(unsafe_sub_window_to(h, n)) ELSE Err(h)

sub(h, pos, n) == IF check_range_u32(h, pos, n) THEN Ok(unsafe_sub(h, pos, n)) ELSE Err(h)

sub_from(h, pos) == IF check_range_u32(h, pos, 0) THEN Ok(unsafe_sub_from(h, pos)) ELSE Err(h)

sub_to(h, n) == IF check_range_u32(h, 0, n) THEN Ok(unsafe_sub_to(h, n)) ELSE Err(h)

\* limits = (new_lo_min, new_hi_max), window = (new_lo, new_hi)
set_limits_and_window(h, new_lo_min, new_hi_max, new_lo, new_hi) ==
  IF new_hi_max < new_lo_min THEN Err(h)
  ELSE IF new_hi < new_lo THEN Err(h)
  ELSE IF new_lo_min < lo_min(h) THEN Err(h)
  ELSE IF new_hi_max > h.hi_max THEN Err(h)
  ELSE IF new_lo < h.lo THEN Err(h)
  ELSE IF new_hi > h.hi THEN Err(h)
  ELSE Ok([set_lo_min(h, new_lo_min) EXCEPT !.lo = new_lo, !.hi = new_hi, !.hi_max = new_hi_max])

\* The address buf.offset(off): allocations lie far apart, the null pointer is 0.
Address(buf, off) == buf * (2 * U32Mod) + off

is_extended_by(h, other) ==
  /\ Address(h.buf, h.hi) = Address(other.buf, other.lo)
  /\ h.hi + len(other) <= h.hi_max

\* A faulty extend_with: it answers Ok and does not move hi.
extend_with_unmoved(h, other) == IF is_extended_by(h, other) THEN Ok(h) ELSE Err(h)

extend_with(h, other) ==
  IF is_extended_by(h, other) THEN Ok(unsafe_extend(h, len(other))) ELSE Err(h)


\* ------------------------------------------------ the allocation (pure)
\* One region of memory: kind "heap" is an allocation made by new_impl (its
\* AllocationHeader is refcount and allocation_length, data the bytes after
\* the header), kind "slice" is a caller's slice (no header), kind "free" is
\* a region not yet used.  deallocs counts the calls of Deallocator::deallocate
\* on the region and dealloc_len is the length the last one was given.
Region(kind, data, refcount, alen) ==
  [kind |-> kind, data |-> data, refcount |-> refcount, allocation_length |-> alen,
   deallocs |-> 0, dealloc_len |-> 0]

NoRegion == Region("free", <<>>, 0, 0)

inc_ref_count_atomic(hdr) == [hdr EXCEPT !.refcount = (@ + 1) % U64Mod]

\* A faulty increment: the new reference is not counted.
inc_ref_count_lost(hdr) == hdr

inc_ref_count_nonatomic(hdr) == [hdr EXCEPT !.refcount = (@ + 1) % U64Mod]

\* Deallocator::Heap(allocation_length)
deallocator(hdr) == <<hdr.allocation_length>>

\* A faulty decrement: it frees when one reference is left.
dec_ref_count_early(hdr) ==
  LET h2 == [hdr EXCEPT !.refcount = (@ - 1) % U64Mod]
  IN  [hdr |-> h2, dealloc |-> IF h2.refcount = 1 THEN deallocator(h2) ELSE <<>>]

\* A faulty atomic decrement: it takes fetch_sub to return the new value.
dec_ref_count_new_value(hdr) ==
  LET h2 == [hdr EXCEPT !.refcount = (@ - 1) % U64Mod]
  IN  [hdr |-> h2, dealloc |-> IF hdr.refcount = 0 THEN deallocator(h2) ELSE <<>>]

\* The header after the decrement and the Option<Deallocator> returned.
dec_ref_count_nonatomic(hdr) ==
  LET h2 == [hdr EXCEPT !.refcount = (@ - 1) % U64Mod]
  IN  [hdr |-> h2, dealloc |-> IF h2.refcount = 0 THEN deallocator(h2) ELSE <<>>]

dec_ref_count_atomic(hdr) ==
  LET h2 == [hdr EXCEPT !.refcount = (@ - 1) % U64Mod]
  IN  [hdr |-> h2, dealloc |-> IF hdr.refcount = 1 THEN deallocator(h2) ELSE <<>>]

deallocate(hdr, dealloc) ==
  IF dealloc = <<>> THEN hdr
  ELSE [hdr EXCEPT !.deallocs = @ + 1, !.dealloc_len = dealloc[1]]

\* A region whose bytes may be accessed.
Live(r) == r.kind = "slice" \/ (r.kind = "heap" /\ r.deallocs = 0)

\* header(): Some(header) when the owned bit is set.  Reaching the header is
\* defined only when buf is an allocation of new_impl that is not freed.
header(h) == IF is_owned(h) THEN <<h.buf>> ELSE <<>>

HeaderValid(hp, h) ==
  is_owned(h) => (h.buf \in Allocs /\ hp[h.buf].kind = "heap" /\ hp[h.buf].deallocs = 0)

\* The n bytes at buf.offset(off) lie in a live region.
InBounds(hp, buf, off, n) ==
  n = 0 \/ (buf \in Allocs /\ Live(hp[buf]) /\ off + n <= Len(hp[buf].data))

\* source.header().map(|h| h.inc_ref_count_*())
IncRef(hp, h, d) ==
  IF header(h) = <<>> THEN hp
  ELSE [hp EXCEPT ![h.buf] = IF d = "atomic" THEN inc_ref_count_atomic(@)
                                             ELSE inc_ref_count_nonatomic(@)]

\* this.header().and_then(|h| h.dec_ref_count_*()).map(|dealloc| dealloc.deallocate(buf))
DecRef(hp, h, d) ==
  IF header(h) = <<>> THEN hp
  ELSE LET r == IF d = "atomic" THEN dec_ref_count_atomic(hp[h.buf])
                                ELSE dec_ref_count_nonatomic(hp[h.buf])
       IN  [hp EXCEPT ![h.buf] = deallocate(r.hdr, r.dealloc)]

\* A faulty clone_from_fix_*_refcounts: self's old reference is never released.
clone_from_fix_refcounts_kept(hp, this, source, d) == IncRef(hp, source, d)

clone_from_fix_refcounts(hp, this, source, d) == DecRef(IncRef(hp, source, d), this, d)

\* A faulty is_unique: it does not read the refcount.
is_unique_uncounted(hp, h) == header(h) # <<>>

\* is_unique_nonatomic / is_unique_atomic: Some(header) with a refcount of 1.
is_unique(hp, h) == header(h) # <<>> /\ hp[h.buf].refcount = 1

\* ----------------------------------------------------------------- state
VARIABLES
  hs,     \* the handles: hs[i].st is "none" (no such handle yet), "live",
          \* "dropped" (drop_* was called on it) or "reserved" (the second
          \* handle of a split_at_atomic under way), hs[i].h the RawIobuf
  heap,   \* the regions of memory
  disc,   \* the refcount discipline the caller uses: "atomic" or "nonatomic"
  res,    \* how the last call ended: "Ok", "Err", or "Panic" (the task failed)
  ret,    \* what the last call returned: handles as slot numbers, bytes, a value
  ub,     \* TRUE once a call has accessed memory outside a live region
  acc,    \* where the last peek/poke/fill/consume accessed memory: "none" (it
          \* accessed nothing), "window" (only offsets in [lo, hi) of the handle
          \* at the call), "outside" (an offset outside [lo, hi)) or "wild" (an
          \* offset outside the live region buf points into)
  thr     \* the tasks that share handles: thr.owner[i] is the task the live
          \* handle i belongs to (1 when i is not live), thr.pc[t] where task
          \* t is in the call it is making and thr.arg[t] what that call
          \* still works on

vars == <<hs, heap, disc, res, ret, ub, acc, thr>>

NoHandle == [st |-> "none", h |-> empty]

FreeSlots == {i \in Handles : hs[i].st = "none"}
FreeRegions == {a \in Allocs : heap[a].kind = "free"}
LowestOf(S) == CHOOSE x \in S : \A y \in S : x <= y

LiveHandles == {i \in Handles : hs[i].st = "live"}

Put(f, i, h) == [f EXCEPT ![i] = [st |-> "live", h |-> h]]

\* No task is inside a call; every handle belongs to the first task.
Idle == [owner |-> [i \in Handles |-> 1], pc |-> [t \in Tasks |-> "idle"],
         arg |-> [t \in Tasks |-> <<>>]]

Init ==
  /\ hs = [i \in Handles |-> NoHandle]
  /\ heap = [a \in Allocs |-> NoRegion]
  /\ disc \in {"atomic", "nonatomic"}
  /\ res = "Ok"
  /\ ret = <<>>
  /\ ub = FALSE
  /\ acc = "none"
  /\ thr = Idle

\* The task is running: it has neither failed nor run into undefined behaviour.
Running == res # "Panic" /\ ~ub

ReturnAccess(hs2, heap2, r, v, a) ==
  /\ hs' = hs2
  /\ heap' = heap2
  /\ res' = r
  /\ ret' = v
  /\ acc' = a
  /\ UNCHANGED <<disc, ub, thr>>

Return(hs2, heap2, r, v) == ReturnAccess(hs2, heap2, r, v, "none")

\* The call fails the task (panic!): nothing else changes.
Panic == res' = "Panic" /\ ret' = <<>> /\ acc' = "none" /\ UNCHANGED <<hs, heap, disc, ub, thr>>

\* The call accesses memory outside a live region (a is "wild") or reaches for
\* a header that is not there (a is "none"): undefined behaviour.
UndefinedAccess(a) ==
  ub' = TRUE /\ res' = "Ok" /\ ret' = <<>> /\ acc' = a /\ UNCHANGED <<hs, heap, disc, thr>>

Undefined == UndefinedAccess("none")

\* ------------------------------------------------------------ constructors
\* new_impl: the handle and the region of a fresh allocation of n bytes whose
\* bytes are data (heap::allocate does not initialise them).
\* A faulty new_impl: the allocation length leaves out the header.
new_impl_no_header(n, data) ==
  [h |-> RawIobuf(LowestOf(FreeRegions), OWNED_MASK, 0, n % U32Mod, n % U32Mod),
   region |-> Region("heap", data, 1, n)]

new_impl(n, data) ==
  [h |-> RawIobuf(LowestOf(FreeRegions), OWNED_MASK, 0, n % U32Mod, n % U32Mod),
   region |-> Region("heap", data, 1, HeaderSize + n)]

New(n, data) ==
  /\ Running
  /\ IF n > MAX_BUFFER_LEN THEN Panic
     ELSE /\ FreeSlots # {} /\ FreeRegions # {}
          /\ Len(data) = n
          /\ LET b == new_impl(n, data)
             IN  Return(Put(hs, LowestOf(FreeSlots), b.h),
                        [heap EXCEPT ![b.h.buf] = b.region],
                        "Ok", <<LowestOf(FreeSlots)>>)

Empty ==
  /\ Running
  /\ FreeSlots # {}
  /\ Return(Put(hs, LowestOf(FreeSlots), empty), heap, "Ok", <<LowestOf(FreeSlots)>>)

\* from_slice(s): s is a slice of n bytes the caller owns (only its length
\* is looked at when it is too long).
FromSlice(n, s) ==
  /\ Running
  /\ IF n > MAX_BUFFER_LEN THEN Panic
     ELSE /\ FreeSlots # {} /\ FreeRegions # {}
          /\ Len(s) = n
          /\ LET a == LowestOf(FreeRegions)
             IN  Return(Put(hs, LowestOf(FreeSlots), RawIobuf(a, 0, 0, n % U32Mod, n % U32Mod)),
                        [heap EXCEPT ![a] = Region("slice", s, 0, 0)],
                        "Ok", <<LowestOf(FreeSlots)>>)

\* from_slice_copy(s): new(s.len()) and a copy of s into it.
from_slice_copy(s) == new_impl(Len(s), s)

FromSliceCopy(n, s) ==
  /\ Running
  /\ IF n > MAX_BUFFER_LEN THEN Panic
     ELSE /\ FreeSlots # {} /\ FreeRegions # {}
          /\ Len(s) = n
          /\ LET b == from_slice_copy(s)
             IN  Return(Put(hs, LowestOf(FreeSlots), b.h),
                        [heap EXCEPT ![b.h.buf] = b.region],
                        "Ok", <<LowestOf(FreeSlots)>>)

\* as_raw_limit_slice: the cap() bytes at buf.offset(lo_min()).
as_limit_slice(hp, h) == [k \in 1 .. cap(h) |-> hp[h.buf].data[lo_min(h) + k]]

\* as_raw_window_slice: the len() bytes at buf.offset(lo).
as_window_slice(hp, h) == [k \in 1 .. len(h) |-> hp[h.buf].data[h.lo + k]]

deep_clone(hp, h) ==
  LET b == from_slice_copy(as_limit_slice(hp, h))
  IN  [b EXCEPT !.h.lo = h.lo, !.h.hi = h.hi]

DeepClone(i) ==
  /\ Running
  /\ hs[i].st = "live"
  /\ IF ~InBounds(heap, hs[i].h.buf, lo_min(hs[i].h), cap(hs[i].h)) THEN Undefined
     ELSE IF cap(hs[i].h) > MAX_BUFFER_LEN THEN Panic
     ELSE /\ FreeSlots # {} /\ FreeRegions # {}
          /\ LET b == deep_clone(heap, hs[i].h)
             IN  Return(Put(hs, LowestOf(FreeSlots), b.h),
                        [heap EXCEPT ![b.h.buf] = b.region],
                        "Ok", <<LowestOf(FreeSlots)>>)

\* ------------------------------------------------------------ clone, drop
clone(h) == h

Clone(i) ==
  /\ Running
  /\ hs[i].st = "live"
  /\ FreeSlots # {}
  /\ IF ~HeaderValid(heap, hs[i].h) THEN Undefined
     ELSE Return(Put(hs, LowestOf(FreeSlots), clone(hs[i].h)),
                 IncRef(heap, hs[i].h, disc), "Ok", <<LowestOf(FreeSlots)>>)

\* A faulty clone_from: it does not look whether self and source share the
\* allocation, and it releases self's reference before it takes source's.
clone_from_release_first(hp, this, source, d) == IncRef(DecRef(hp, this, d), source, d)

\* The refcount traffic of self.clone_from(source).
clone_from(hp, this, source, d) ==
  IF this.buf # source.buf \/ is_owned(this) # is_owned(source)
  THEN clone_from_fix_refcounts(hp, this, source, d)
  ELSE hp

\* self.clone_from(source); the raw interface also takes self for source.
CloneFrom(i, j) ==
  /\ Running
  /\ hs[i].st = "live" /\ hs[j].st = "live"
  /\ IF ~HeaderValid(heap, hs[i].h) \/ ~HeaderValid(heap, hs[j].h) THEN Undefined
     ELSE Return([hs EXCEPT ![i].h = hs[j].h],
                 clone_from(heap, hs[i].h, hs[j].h, disc), "Ok", <<>>)

\* A faulty drop: it leaves the owned bit set.
drop_keeping_owned_bit(i) ==
  /\ Running
  /\ hs[i].st \in {"live", "dropped"}
  /\ IF ~HeaderValid(heap, hs[i].h) THEN Undefined
     ELSE Return([hs EXCEPT ![i].st = "dropped"], DecRef(heap, hs[i].h, disc), "Ok", <<>>)

\* drop_atomic / drop_nonatomic: also on a handle already dropped.
Drop(i) ==
  /\ Running
  /\ hs[i].st \in {"live", "dropped"}
  /\ IF ~HeaderValid(heap, hs[i].h) THEN Undefined
     ELSE Return([hs EXCEPT ![i] = [st |-> "dropped",
                                     h |-> [hs[i].h EXCEPT !.lo_min_and_owned_bit = 0]]],
                 DecRef(heap, hs[i].h, disc), "Ok", <<>>)

\* A bool as it is returned: the byte 1 for true, 0 for false.
Bool(b) == IF b THEN 1 ELSE 0

\* is_unique_*(): the answer is returned, nothing changes.
IsUnique(i) ==
  /\ Running
  /\ hs[i].st = "live"
  /\ IF ~HeaderValid(heap, hs[i].h) THEN Undefined
     ELSE Return(hs, heap, "Ok", <<Bool(is_unique(heap, hs[i].h))>>)

\* ------------------------------------------------------------------ splits
\* A faulty split: the second handle is not advanced to the split position.
unsafe_split_at_unadvanced(h, pos) ==
  [a |-> unsafe_resize(clone(h), pos), b |-> clone(h)]

unsafe_split_at(h, pos) ==
  [a |-> unsafe_resize(clone(h), pos), b |-> unsafe_advance(clone(h), pos)]

SplitAt(i, pos) ==
  /\ Running
  /\ hs[i].st = "live"
  /\ IF ~check_range_u32(hs[i].h, pos, 0) THEN Return(hs, heap, "Err", <<>>)
     ELSE /\ Cardinality(FreeSlots) >= 2
          /\ IF ~HeaderValid(heap, hs[i].h) THEN Undefined
             ELSE LET sa == LowestOf(FreeSlots)
                      sb == LowestOf(FreeSlots \ {sa})
                      r == unsafe_split_at(hs[i].h, pos)
                  IN  Return(Put(Put(hs, sa, r.a), sb, r.b),
                             IncRef(IncRef(heap, hs[i].h, disc), hs[i].h, disc),
                             "Ok", <<sa, sb>>)

\* A faulty split_start_at: self is not advanced to the split position.
unsafe_split_start_at_unadvanced(h, pos) ==
  [ret |-> unsafe_resize(clone(h), pos), self |-> h]

unsafe_split_start_at(h, pos) ==
  [ret |-> unsafe_resize(clone(h), pos), self |-> unsafe_advance(h, pos)]

SplitStartAt(i, pos) ==
  /\ Running
  /\ hs[i].st = "live"
  /\ IF ~check_range_u32(hs[i].h, pos, 0) THEN Return(hs, heap, "Err", <<>>)
     ELSE /\ FreeSlots # {}
          /\ IF ~HeaderValid(heap, hs[i].h) THEN Undefined
             ELSE LET r == unsafe_split_start_at(hs[i].h, pos)
                  IN  Return(Put([hs EXCEPT ![i].h = r.self], LowestOf(FreeSlots), r.ret),
                             IncRef(heap, hs[i].h, disc), "Ok", <<LowestOf(FreeSlots)>>)

\* ------------------------------------------- tasks sharing an allocation
\* Under the atomic discipline every fetch_add and fetch_sub on the refcount
\* and the call of deallocate is one step of the task that makes it; what a
\* task does to its own handles in between belongs to the step before.
Mine(t, i) == hs[i].st = "live" /\ thr.owner[i] = t /\ thr.pc[t] = "idle"

Step(hs2, heap2, thr2, v) ==
  /\ hs' = hs2
  /\ heap' = heap2
  /\ thr' = thr2
  /\ res' = "Ok"
  /\ ret' = v
  /\ acc' = "none"
  /\ UNCHANGED <<disc, ub>>

\* The handle i is moved to task t.
Give(i, t) ==
  /\ Running
  /\ Mine(thr.owner[i], i)
  /\ thr.owner[i] # t
  /\ Step(hs, heap, [thr EXCEPT !.owner[i] = t], <<>>)

CloneAtomic(t, i) ==
  /\ Running
  /\ Mine(t, i)
  /\ FreeSlots # {}
  /\ IF ~HeaderValid(heap, hs[i].h) THEN Undefined
     ELSE LET s == LowestOf(FreeSlots)
          IN  Step(Put(hs, s, clone(hs[i].h)), IncRef(heap, hs[i].h, "atomic"),
                   [thr EXCEPT !.owner[s] = t], <<s>>)

SplitStartAtAtomic(t, i, pos) ==
  /\ Running
  /\ Mine(t, i)
  /\ IF ~check_range_u32(hs[i].h, pos, 0) THEN Return(hs, heap, "Err", <<>>)
     ELSE /\ FreeSlots # {}
          /\ IF ~HeaderValid(heap, hs[i].h) THEN Undefined
             ELSE LET s == LowestOf(FreeSlots)
                      r == unsafe_split_start_at(hs[i].h, pos)
                  IN  Step(Put([hs EXCEPT ![i].h = r.self], s, r.ret),
                           IncRef(heap, hs[i].h, "atomic"),
                           [thr EXCEPT !.owner[s] = t], <<s>>)

\* split_at_atomic up to the first clone_atomic: a is made, b is still to come.
SplitAtAtomic(t, i, pos) ==
  /\ Running
  /\ Mine(t, i)
  /\ IF ~check_range_u32(hs[i].h, pos, 0) THEN Return(hs, heap, "Err", <<>>)
     ELSE /\ Cardinality(FreeSlots) >= 2
          /\ IF ~HeaderValid(heap, hs[i].h) THEN Undefined
             ELSE LET sa == LowestOf(FreeSlots)
                      sb == LowestOf(FreeSlots \ {sa})
                  IN  Step([Put(hs, sa, clone(hs[i].h)) EXCEPT ![sb].st = "reserved"],
                           IncRef(heap, hs[i].h, "atomic"),
                           [thr EXCEPT !.owner[sa] = t, !.owner[sb] = t,
                                       !.pc[t] = "split_at", !.arg[t] = <<i, pos, sa, sb>>],
                           <<>>)

\* split_at_atomic from the second clone_atomic on.
SplitAtAtomicRest(t) ==
  /\ Running
  /\ thr.pc[t] = "split_at"
  /\ LET i == thr.arg[t][1]
         pos == thr.arg[t][2]
         sa == thr.arg[t][3]
         sb == thr.arg[t][4]
         r == unsafe_split_at(hs[i].h, pos)
     IN  IF ~HeaderValid(heap, hs[i].h) THEN Undefined
         ELSE Step(Put(Put(hs, sa, r.a), sb, r.b), IncRef(heap, hs[i].h, "atomic"),
                   [thr EXCEPT !.pc[t] = "idle", !.arg[t] = <<>>], <<sa, sb>>)

Dropped(h) == [st |-> "dropped", h |-> [h EXCEPT !.lo_min_and_owned_bit = 0]]

\* drop_atomic up to the fetch_sub, and to its end when nothing is to be freed.
DropAtomic(t, i) ==
  /\ Running
  /\ Mine(t, i)
  /\ LET h == hs[i].h
     IN  IF ~HeaderValid(heap, h) THEN Undefined
         ELSE IF header(h) = <<>>
         THEN Step([hs EXCEPT ![i] = Dropped(h)], heap, [thr EXCEPT !.owner[i] = 1], <<>>)
         ELSE LET r == dec_ref_count_atomic(heap[h.buf])
              IN  IF r.dealloc = <<>>
                  THEN Step([hs EXCEPT ![i] = Dropped(h)], [heap EXCEPT ![h.buf] = r.hdr],
                            [thr EXCEPT !.owner[i] = 1], <<>>)
                  ELSE Step(hs, [heap EXCEPT ![h.buf] = r.hdr],
                            [thr EXCEPT !.pc[t] = "deallocate", !.arg[t] = <<i, r.dealloc>>],
                            <<>>)

\* drop_atomic from dealloc.deallocate(buf) on.
DropAtomicRest(t) ==
  /\ Running
  /\ thr.pc[t] = "deallocate"
  /\ LET i == thr.arg[t][1]
         h == hs[i].h
     IN  Step([hs EXCEPT ![i] = Dropped(h)],
              [heap EXCEPT ![h.buf] = deallocate(@, thr.arg[t][2])],
              [thr EXCEPT !.owner[i] = 1, !.pc[t] = "idle", !.arg[t] = <<>>], <<>>)

\* Under the nonatomic discipline refcount += 1 and refcount -= 1 are a read
\* and a write of the header's field: a task that calls clone_nonatomic or
\* drop_nonatomic while another task is inside such a call reads the count in
\* one step and writes it in a later one, thr.arg[t] = <<handle, count read>>.
Reading(t) == hs[thr.arg[t][1]].h

\* The header as task t has read it.
HeaderRead(t) == [heap[Reading(t).buf] EXCEPT !.refcount = thr.arg[t][2]]

\* The slots that tasks inside clone_nonatomic still need.
Cloning == {t \in Tasks : thr.pc[t] = "inc"}

\* clone_nonatomic up to the read of self.refcount += 1.
CloneNonatomic(t, i) ==
  /\ Running
  /\ Mine(t, i)
  /\ Cardinality(FreeSlots) > Cardinality(Cloning)
  /\ LET h == hs[i].h
         s == LowestOf(FreeSlots)
     IN  IF ~HeaderValid(heap, h) THEN Undefined
         ELSE IF header(h) = <<>>
         THEN Step(Put(hs, s, clone(h)), heap, [thr EXCEPT !.owner[s] = t], <<s>>)
         ELSE Step(hs, heap,
                   [thr EXCEPT !.pc[t] = "inc", !.arg[t] = <<i, heap[h.buf].refcount>>], <<>>)

\* A faulty clone_nonatomic: the new handle is made, the count is not written.
clone_nonatomic_uncounted(t) ==
  /\ Running
  /\ thr.pc[t] = "inc"
  /\ Step(Put(hs, LowestOf(FreeSlots), clone(Reading(t))), heap,
          [thr EXCEPT !.owner[LowestOf(FreeSlots)] = t, !.pc[t] = "idle", !.arg[t] = <<>>],
          <<LowestOf(FreeSlots)>>)

\* clone_nonatomic from the write of self.refcount += 1 on.
CloneNonatomicRest(t) ==
  /\ Running
  /\ thr.pc[t] = "inc"
  /\ LET h == Reading(t)
         s == LowestOf(FreeSlots)
     IN  IF ~HeaderValid(heap, h) THEN Undefined
         ELSE Step(Put(hs, s, clone(h)),
                   [heap EXCEPT ![h.buf] = inc_ref_count_nonatomic(HeaderRead(t))],
                   [thr EXCEPT !.owner[s] = t, !.pc[t] = "idle", !.arg[t] = <<>>], <<s>>)

\* drop_nonatomic up to the read of self.refcount -= 1.
DropNonatomic(t, i) ==
  /\ Running
  /\ Mine(t, i)
  /\ LET h == hs[i].h
     IN  IF ~HeaderValid(heap, h) THEN Undefined
         ELSE IF header(h) = <<>>
         THEN Step([hs EXCEPT ![i] = Dropped(h)], heap, [thr EXCEPT !.owner[i] = 1], <<>>)
         ELSE Step(hs, heap,
                   [thr EXCEPT !.pc[t] = "dec", !.arg[t] = <<i, heap[h.buf].refcount>>], <<>>)

\* drop_nonatomic from the write of self.refcount -= 1 on: the test of the
\* new count, deallocate, and the owned bit cleared.
DropNonatomicRest(t) ==
  /\ Running
  /\ thr.pc[t] = "dec"
  /\ LET i == thr.arg[t][1]
         h == Reading(t)
         r == dec_ref_count_nonatomic(HeaderRead(t))
     IN  IF ~HeaderValid(heap, h) THEN Undefined
         ELSE Step([hs EXCEPT ![i] = Dropped(h)],
                   [heap EXCEPT ![h.buf] = deallocate(r.hdr, r.dealloc)],
                   [thr EXCEPT !.owner[i] = 1, !.pc[t] = "idle", !.arg[t] = <<>>], <<>>)

\* ------------------------------------------------------- cursor operations
\* The model follows a handle while its cursors stay below MaxCursor: a call
\* that would move them beyond it (by wrapping around) is not made.
MaxCursor == MaxLen + 1

InModel(h) ==
  /\ lo_min(h) <= MaxCursor /\ h.lo <= MaxCursor
  /\ h.hi <= MaxCursor /\ h.hi_max <= MaxCursor
  /\ h.lo_min_and_owned_bit \in {lo_min(h), OWNED_MASK + lo_min(h)}

\* The call that takes handle h to h2 is made.
Followed(h, h2) == h2 = h \/ InModel(h2)

\* A call on handle i that returns the Result r and touches no memory.
Cursor(i, r) ==
  /\ Running
  /\ hs[i].st = "live"
  /\ Followed(hs[i].h, r.h)
  /\ Return([hs EXCEPT ![i].h = r.h], heap, IF r.ok THEN "Ok" ELSE "Err", <<>>)

Advance(i, n) == Cursor(i, advance(hs[i].h, n))
Extend(i, n) == Cursor(i, extend(hs[i].h, n))
Resize(i, n) == Cursor(i, resize(hs[i].h, n))
Rewind(i) == Cursor(i, Ok(rewind(hs[i].h)))
Reset(i) == Cursor(i, Ok(reset(hs[i].h)))
FlipLo(i) == Cursor(i, Ok(flip_lo(hs[i].h)))
FlipHi(i) == Cursor(i, Ok(flip_hi(hs[i].h)))
Narrow(i) == Cursor(i, Ok(narrow(hs[i].h)))
SubWindow(i, pos, n) == Cursor(i, sub_window(hs[i].h, pos, n))
SubWindowFrom(i, pos) == Cursor(i, sub_window_from(hs[i].h, pos))
SubWindowTo(i, n) == Cursor(i, sub_window_to(hs[i].h, n))
Sub(i, pos, n) == Cursor(i, sub(hs[i].h, pos, n))
SubFrom(i, pos) == Cursor(i, sub_from(hs[i].h, pos))
SubTo(i, n) == Cursor(i, sub_to(hs[i].h, n))
SetLimitsAndWindow(i, a, d, b, c) == Cursor(i, set_limits_and_window(hs[i].h, a, d, b, c))
ExtendWith(i, j) == i # j /\ hs[j].st = "live" /\ Cursor(i, extend_with(hs[i].h, hs[j].h))

\* check_range(pos, len) called on handle i with two u64 values.
CheckRange(i, pos, n) ==
  /\ Running
  /\ hs[i].st = "live"
  /\ Return(hs, heap, IF check_range(hs[i].h, pos, n) THEN "Ok" ELSE "Err", <<>>)

\* ptr::copy_memory(buf + lo_min, buf + lo, len): the bytes after a memmove.
copy_memory(data, dst, src, n) ==
  [k \in 1 .. Len(data) |-> IF dst < k /\ k <= dst + n THEN data[k - dst + src] ELSE data[k]]

compact(h) == [h EXCEPT !.lo = (lo_min(h) + len(h)) % U32Mod, !.hi = h.hi_max]

Compact(i) ==
  /\ Running
  /\ hs[i].st = "live"
  /\ LET h == hs[i].h
     IN  IF ~(InBounds(heap, h.buf, h.lo, len(h)) /\ InBounds(heap, h.buf, lo_min(h), len(h)))
         THEN Undefined
         ELSE Followed(h, compact(h)) /\
              Return([hs EXCEPT ![i].h = compact(h)],
                     IF len(h) = 0 THEN heap
                     ELSE [heap EXCEPT ![h.buf].data = copy_memory(@, lo_min(h), h.lo, len(h))],
                     "Ok", <<>>)

\* ------------------------------------------------------ typed serialization
\* The Prim types: i8, u8, i16, u16, i32, u32, i64, u64.
Prim(bytes, signed) == [bytes |-> bytes, signed |-> signed]

Prims == {Prim(b, sg) : b \in {1, 2, 4, 8}, sg \in BOOLEAN}

size_of(T) == T.bytes

RECURSIVE ByteOr(_, _)
ByteOr(a, b) ==
  IF a = 0 THEN b ELSE IF b = 0 THEN a
  ELSE 2 * ByteOr(a \div 2, b \div 2) + (IF a % 2 = 1 \/ b % 2 = 1 THEN 1 ELSE 0)

RECURSIVE ByteAnd(_, _)
ByteAnd(a, b) ==
  IF a = 0 \/ b = 0 THEN 0
  ELSE 2 * ByteAnd(a \div 2, b \div 2) + (IF a % 2 = 1 /\ b % 2 = 1 THEN 1 ELSE 0)

\* x | y and x & y on values of one type.
BitOr(x, y) == [k \in 1 .. Len(x) |-> ByteOr(x[k], y[k])]
BitAnd(x, y) == [k \in 1 .. Len(x) |-> ByteAnd(x[k], y[k])]

\* x << bits, bits a multiple of 8 below the width of T.
Shl(T, x, bits) ==
  [k \in 1 .. size_of(T) |-> IF k > bits \div 8 THEN x[k - bits \div 8] ELSE 0]

\* x >> bits: logical on an unsigned T, arithmetic (sign-filling) on a signed T.
Shr(T, x, bits) ==
  LET fill == IF T.signed /\ x[size_of(T)] >= 128 THEN 255 ELSE 0
  IN  [k \in 1 .. size_of(T) |-> IF k + bits \div 8 <= size_of(T) THEN x[k + bits \div 8] ELSE fill]

\* FromPrimitive::from_u8: None (the empty sequence) when b does not fit T.
from_u8(T, b) ==
  IF T.signed /\ size_of(T) = 1 /\ b >= 128 THEN <<>>
  ELSE <<[k \in 1 .. size_of(T) |-> IF k = 1 THEN b ELSE 0]>>

\* ToPrimitive::to_u8: None when the value of x is not in 0 ..= 255.
to_u8(T, x) ==
  IF (\A k \in 2 .. size_of(T) : x[k] = 0) /\ ~(T.signed /\ size_of(T) = 1 /\ x[1] >= 128)
  THEN <<x[1]>> ELSE <<>>

\* get_at::<T> on the byte read: from_u8(byte), unwrapped by the caller.
get_at(T, byte) == from_u8(T, byte)

\* The loop of unsafe_peek_be over the bytes w read at pos, pos+1, ...: None
\* when an unwrap fails.
RECURSIVE peek_be_loop(_, _, _, _)
peek_be_loop(T, w, i, x) ==
  IF i > Len(w) THEN <<x>>
  ELSE IF get_at(T, w[i]) = <<>> THEN <<>>
  ELSE peek_be_loop(T, w, i + 1, BitOr(get_at(T, w[i])[1], Shl(T, x, 8)))

unsafe_peek_be(T, w) ==
  IF size_of(T) = 1 THEN get_at(T, w[1])
  ELSE peek_be_loop(T, w, 1, from_u8(T, 0)[1])

RECURSIVE peek_le_loop(_, _, _, _)
peek_le_loop(T, w, i, x) ==
  IF i > Len(w) THEN <<x>>
  ELSE IF get_at(T, w[i]) = <<>> THEN <<>>
  ELSE peek_le_loop(T, w, i + 1,
         BitOr(Shr(T, x, 8), Shl(T, get_at(T, w[i])[1], (size_of(T) - 1) * 8)))

unsafe_peek_le(T, w) == peek_le_loop(T, w, 1, from_u8(T, 0)[1])

\* set_at::<T>: the byte written for val, None when the unwrap fails.
set_at(T, val) == to_u8(T, val)

\* unsafe_poke_be / unsafe_poke_le: for each i the byte set_at writes at pos+i
\* (None when its unwrap fails); the empty sequence when the mask 0xFF does
\* not fit T and the unwrap of from_u8 fails before anything is written.
unsafe_poke_be(T, t) ==
  IF from_u8(T, 255) = <<>> THEN <<>>
  ELSE [k \in 1 .. size_of(T) |->
          set_at(T, BitAnd(Shr(T, t, (size_of(T) - (k - 1) - 1) * 8), from_u8(T, 255)[1]))]

unsafe_poke_le(T, t) ==
  IF from_u8(T, 255) = <<>> THEN <<>>
  ELSE [k \in 1 .. size_of(T) |->
          set_at(T, BitAnd(Shr(T, t, (k - 1) * 8), from_u8(T, 255)[1]))]

\* ---------------------------------------------------- peek, poke and friends
\* How the offsets a call accessed lie in the window [lo, hi) of the handle.
Access(h, offs) ==
  IF offs = {} THEN "none"
  ELSE IF \A o \in offs : h.lo <= o /\ o < h.hi THEN "window" ELSE "outside"

\* The offsets from buf of get_at(pos + k) / set_at(pos + k), k < n.
TypedOffsets(h, pos, n) == {(h.lo + ((pos + k) % U32Mod)) % U32Mod : k \in 0 .. n - 1}

\* The offsets from buf of the n bytes unsafe_peek / unsafe_poke copy.
RawOffsets(h, pos, n) == {((h.lo + pos) % U32Mod) + k : k \in 0 .. n - 1}

Accessible(hp, buf, offs) ==
  offs = {} \/ (buf \in Allocs /\ Live(hp[buf]) /\ \A o \in offs : o < Len(hp[buf].data))

TypedBytes(hp, h, pos, n) ==
  [k \in 1 .. n |-> hp[h.buf].data[((h.lo + ((pos + k - 1) % U32Mod)) % U32Mod) + 1]]

RawBytes(hp, h, pos, n) ==
  [k \in 1 .. n |-> hp[h.buf].data[((h.lo + pos) % U32Mod) + k]]

\* data with the bytes w written from offset off on.
Written(data, off, w) ==
  [k \in 1 .. Len(data) |-> IF off < k /\ k <= off + Len(w) THEN w[k - off] ELSE data[k]]

\* A call on handle i that passed its range check and accesses offs: reading
\* gives the Option v (None: an unwrap fails), and it leaves handle h2 and the
\* bytes data2 behind.
IO(i, offs, v, h2, data2) ==
  IF ~Accessible(heap, hs[i].h.buf, offs)
  THEN UndefinedAccess("wild")
  ELSE IF v = <<>> THEN Panic
  ELSE /\ Followed(hs[i].h, h2)
       /\ ReturnAccess([hs EXCEPT ![i].h = h2],
                       IF offs = {} THEN heap ELSE [heap EXCEPT ![hs[i].h.buf].data = data2],
                       "Ok", v[1], Access(hs[i].h, offs))

Failed == Return(hs, heap, "Err", <<>>)

Checked(i, pos, n) == Running /\ hs[i].st = "live" /\ check_range(hs[i].h, pos, n)
Rejected(i, pos, n) == Running /\ hs[i].st = "live" /\ ~check_range(hs[i].h, pos, n)

Data(i) == heap[hs[i].h.buf].data

\* peek(pos, dst), dst of n bytes: returns the bytes copied into dst.
Peek(i, pos, n) ==
  \/ Rejected(i, pos, n) /\ Failed
  \/ /\ Checked(i, pos, n)
     /\ LET offs == RawOffsets(hs[i].h, pos, n)
        IN  IO(i, offs, <<RawBytes(heap, hs[i].h, pos, n)>>, hs[i].h, Data(i))

\* poke(pos, src)
Poke(i, pos, src) ==
  \/ Rejected(i, pos, Len(src)) /\ Failed
  \/ /\ Checked(i, pos, Len(src))
     /\ LET offs == RawOffsets(hs[i].h, pos, Len(src))
        IN  IO(i, offs, <<<<>>>>, hs[i].h, Written(Data(i), (hs[i].h.lo + pos) % U32Mod, src))

\* fill(src): unsafe_poke(0, src); lo += src.len()
Fill(i, src) ==
  \/ Rejected(i, 0, Len(src)) /\ Failed
  \/ /\ Checked(i, 0, Len(src))
     /\ LET offs == RawOffsets(hs[i].h, 0, Len(src))
        IN  IO(i, offs, <<<<>>>>, unsafe_advance(hs[i].h, Len(src)),
               Written(Data(i), hs[i].h.lo, src))

\* consume(dst): unsafe_peek(0, dst); lo += dst.len()
Consume(i, n) ==
  \/ Rejected(i, 0, n) /\ Failed
  \/ /\ Checked(i, 0, n)
     /\ LET offs == RawOffsets(hs[i].h, 0, n)
        IN  IO(i, offs, <<RawBytes(heap, hs[i].h, 0, n)>>, unsafe_advance(hs[i].h, n), Data(i))

PeekBE(i, T, pos) ==
  \/ Rejected(i, pos, size_of(T)) /\ Failed
  \/ /\ Checked(i, pos, size_of(T))
     /\ LET offs == TypedOffsets(hs[i].h, pos, size_of(T))
        IN  IO(i, offs, unsafe_peek_be(T, TypedBytes(heap, hs[i].h, pos, size_of(T))),
               hs[i].h, Data(i))

PeekLE(i, T, pos) ==
  \/ Rejected(i, pos, size_of(T)) /\ Failed
  \/ /\ Checked(i, pos, size_of(T))
     /\ LET offs == TypedOffsets(hs[i].h, pos, size_of(T))
        IN  IO(i, offs, unsafe_peek_le(T, TypedBytes(heap, hs[i].h, pos, size_of(T))),
               hs[i].h, Data(i))

\* The bytes of w: every set_at of the poke wrote its byte.
Unwrapped(w) == [k \in 1 .. Len(w) |-> w[k][1]]

\* A typed poke of the bytes w (see unsafe_poke_be) at pos, leaving handle h2.
TypedPoke(i, pos, w, h2) ==
  LET offs == TypedOffsets(hs[i].h, pos, Len(w))
  IN  IF w = <<>> \/ \E k \in 1 .. Len(w) : w[k] = <<>>
      THEN IO(i, {}, <<>>, h2, Data(i))
      ELSE IO(i, offs, <<<<>>>>, h2,
              Written(Data(i), (hs[i].h.lo + pos) % U32Mod, Unwrapped(w)))

PokeBE(i, T, pos, t) ==
  \/ Rejected(i, pos, size_of(T)) /\ Failed
  \/ Checked(i, pos, size_of(T)) /\ TypedPoke(i, pos, unsafe_poke_be(T, t), hs[i].h)

PokeLE(i, T, pos, t) ==
  \/ Rejected(i, pos, size_of(T)) /\ Failed
  \/ Checked(i, pos, size_of(T)) /\ TypedPoke(i, pos, unsafe_poke_le(T, t), hs[i].h)

FillBE(i, T, t) ==
  \/ Rejected(i, 0, size_of(T)) /\ Failed
  \/ /\ Checked(i, 0, size_of(T))
     /\ TypedPoke(i, 0, unsafe_poke_be(T, t), unsafe_advance(hs[i].h, size_of(T)))

FillLE(i, T, t) ==
  \/ Rejected(i, 0, size_of(T)) /\ Failed
  \/ /\ Checked(i, 0, size_of(T))
     /\ TypedPoke(i, 0, unsafe_poke_le(T, t), unsafe_advance(hs[i].h, size_of(T)))

ConsumeBE(i, T) ==
  \/ Rejected(i, 0, size_of(T)) /\ Failed
  \/ /\ Checked(i, 0, size_of(T))
     /\ LET offs == TypedOffsets(hs[i].h, 0, size_of(T))
        IN  IO(i, offs, unsafe_peek_be(T, TypedBytes(heap, hs[i].h, 0, size_of(T))),
               unsafe_advance(hs[i].h, size_of(T)), Data(i))

ConsumeLE(i, T) ==
  \/ Rejected(i, 0, size_of(T)) /\ Failed
  \/ /\ Checked(i, 0, size_of(T))
     /\ LET offs == TypedOffsets(hs[i].h, 0, size_of(T))
        IN  IO(i, offs, unsafe_peek_le(T, TypedBytes(heap, hs[i].h, 0, size_of(T))),
               unsafe_advance(hs[i].h, size_of(T)), Data(i))

\* ------------------------------------------------------- specifications
\* The cursor values set_limits_and_window is asked for.
Cur == 0 .. MaxLen - 1

\* The contents of a buffer of n bytes (none are built of one that is too long).
Contents(n) == IF n > MaxLen THEN {<<>>} ELSE [1 .. n -> ByteVals]

Constructors ==
  \/ \E n \in Lens : \E data \in Contents(n) : New(n, data)
  \/ \E n \in Lens : \E s \in Contents(n) : FromSlice(n, s)
  \/ \E n \in Lens : \E s \in Contents(n) : FromSliceCopy(n, s)
  \/ Empty

CursorOps(i) ==
  \/ \E n \in Args : Advance(i, n)
  \/ \E n \in Args : Extend(i, n)
  \/ \E n \in Args : Resize(i, n)
  \/ Rewind(i)
  \/ Reset(i)
  \/ FlipLo(i)
  \/ FlipHi(i)
  \/ Narrow(i)
  \/ \E pos, n \in Offs : SubWindow(i, pos, n)
  \/ \E pos \in Args : SubWindowFrom(i, pos)
  \/ \E n \in Args : SubWindowTo(i, n)
  \/ \E pos, n \in Offs : Sub(i, pos, n)
  \/ \E pos \in Args : SubFrom(i, pos)
  \/ \E n \in Args : SubTo(i, n)
  \/ \E a, d, b, c \in Cur : SetLimitsAndWindow(i, a, d, b, c)
  \/ Compact(i)

\* The values of type T that are poked: their bytes are a, b, a, b, ... for
\* two different bytes a and b.
Vals(T) ==
  {[k \in 1 .. size_of(T) |-> IF k % 2 = 1 THEN p[1] ELSE p[2]] :
     p \in {q \in ByteVals \X ByteVals : q[1] # q[2]}}

\* The positions of the typed peeks and pokes.
TypedOffs == {0, 1, U32Mod - 1}

\* The types the single handle is peeked and poked with: those that fit a
\* buffer of MaxLen bytes, and u64, which fits none.
SmallPrims == {T \in Prims : size_of(T) <= MaxLen \/ T = Prim(8, FALSE)}

\* The byte slices that are poked: n times the same byte.
Slices == {[k \in 1 .. n |-> v] : n \in 0 .. MaxLen, v \in ByteVals}

IOOps(i) ==
  \/ \E pos \in Offs, n \in 0 .. MaxLen + 1 : Peek(i, pos, n)
  \/ \E pos \in Offs, src \in Slices : Poke(i, pos, src)
  \/ \E src \in Slices : Fill(i, src)
  \/ \E n \in 0 .. MaxLen + 1 : Consume(i, n)
  \/ \E T \in SmallPrims, pos \in TypedOffs : PeekBE(i, T, pos)
  \/ \E T \in SmallPrims, pos \in TypedOffs : PeekLE(i, T, pos)
  \/ \E T \in SmallPrims, pos \in TypedOffs : \E t \in Vals(T) : PokeBE(i, T, pos, t)
  \/ \E T \in SmallPrims, pos \in TypedOffs : \E t \in Vals(T) : PokeLE(i, T, pos, t)
  \/ \E T \in SmallPrims : \E t \in Vals(T) : FillBE(i, T, t)
  \/ \E T \in SmallPrims : \E t \in Vals(T) : FillLE(i, T, t)
  \/ \E T \in SmallPrims : ConsumeBE(i, T)
  \/ \E T \in SmallPrims : ConsumeLE(i, T)

\* The caller makes one handle, slot 1, and works on it; the last thing it
\* may do is to split it and to join the parts again.
Next ==
  \/ FreeSlots = Handles /\ Constructors
  \/ FreeSlots = Handles \ {1} /\ CursorOps(1)
  \/ FreeSlots = Handles \ {1} /\ IOOps(1)
  \/ FreeSlots = Handles \ {1} /\ \E pos \in Args : SplitAt(1, pos)
  \/ FreeSlots = Handles \ {1} /\ \E pos \in Args : SplitStartAt(1, pos)
  \/ \E i, j \in Handles : ExtendWith(i, j)

InitSingle == Init /\ disc = "nonatomic"

Spec == InitSingle /\ [][Next]_vars

\* The one content of n bytes the sharing scenarios use.
Ones(n) == IF n > MaxLen THEN <<>> ELSE [k \in 1 .. n |-> 1]

\* The lengths and the split positions of the scenarios that count references.
RefLens == {MaxLen - 1, MAX_BUFFER_LEN + 1}
RefArgs == {0, MaxLen - 1, U32Mod - 1}

\* The single-threaded caller makes no more than MaxHandles - 1 handles: there
\* is room for k more.
Room(k) == Cardinality(FreeSlots) > k

\* The caller makes handles, clones, splits, reassigns and drops them.
NextRef ==
  \/ Room(1) /\ \E n \in RefLens : New(n, Ones(n))
  \/ Room(1) /\ \E n \in RefLens : FromSlice(n, Ones(n))
  \/ Room(1) /\ Empty
  \/ Room(1) /\ \E i \in Handles : Clone(i)
  \/ \E i, j \in Handles : CloneFrom(i, j)
  \/ \E i \in Handles : Drop(i)
  \/ Room(2) /\ \E i \in Handles, pos \in RefArgs : SplitAt(i, pos)
  \/ Room(1) /\ \E i \in Handles, pos \in RefArgs : SplitStartAt(i, pos)

SpecRef == Init /\ [][NextRef]_vars

\* The cursor operations that keep a handle's cursors in order.
OrderlyOps(i) ==
  \/ \E n \in Offs : Advance(i, n)
  \/ \E n \in Offs : Resize(i, n)
  \/ Narrow(i)
  \/ Reset(i)
  \/ \E pos, n \in Offs : Sub(i, pos, n)
  \/ \E pos \in Offs : SubFrom(i, pos)
  \/ \E n \in Offs : SubTo(i, n)

\* The caller makes one handle, moves its cursors and deep-clones it.
NextDeep ==
  \/ FreeSlots = Handles /\ Constructors
  \/ FreeSlots = Handles \ {1} /\ OrderlyOps(1)
  \/ FreeSlots = Handles \ {1} /\ DeepClone(1)

SpecDeep == InitSingle /\ [][NextDeep]_vars

\* The size of the widest Prim type.
WidestPrim == CHOOSE b \in {size_of(T) : T \in Prims} : \A T \in Prims : size_of(T) <= b

\* A handle on a fresh allocation of n bytes, all v.
TypedBuffer(n, v) ==
  [h |-> RawIobuf(1, OWNED_MASK, 0, n, n),
   region |-> Region("heap", [k \in 1 .. n |-> v], 1, HeaderSize + n)]

\* The buffer holds a value of any Prim type, or of any but the widest ones.
InitTyped ==
  /\ \E n \in {WidestPrim \div 2, WidestPrim}, v \in ByteVals :
       /\ hs = [i \in Handles |-> IF i = 1 THEN [st |-> "live", h |-> TypedBuffer(n, v).h]
                                            ELSE NoHandle]
       /\ heap = [a \in Allocs |-> IF a = 1 THEN TypedBuffer(n, v).region ELSE NoRegion]
  /\ disc = "nonatomic"
  /\ res = "Ok"
  /\ ret = <<>>
  /\ ub = FALSE
  /\ acc = "none"
  /\ thr = Idle

\* The caller pokes values of every type at the start of the window and peeks
\* them back.
NextTyped ==
  \/ \E T \in Prims : \E t \in Vals(T) : PokeBE(1, T, 0, t)
  \/ \E T \in Prims : \E t \in Vals(T) : PokeLE(1, T, 0, t)
  \/ \E T \in Prims : PeekBE(1, T, 0)
  \/ \E T \in Prims : PeekLE(1, T, 0)

SpecTyped == InitTyped /\ [][NextTyped]_vars

\* The positions the tasks split at: the end of the buffer and one beyond any.
AtomicArgs == {MaxLen - 1, U32Mod - 1}

\* The first task makes an allocation; the tasks pass its handles around and
\* clone, split and drop them, all under the atomic discipline.
NextAtomic ==
  \/ FreeSlots = Handles /\ \E n \in RefLens : New(n, Ones(n))
  \/ \E i \in Handles, t \in Tasks : Give(i, t)
  \/ \E t \in Tasks, i \in Handles : CloneAtomic(t, i)
  \/ \E t \in Tasks, i \in Handles, pos \in AtomicArgs : SplitStartAtAtomic(t, i, pos)
  \/ \E t \in Tasks, i \in Handles, pos \in AtomicArgs : SplitAtAtomic(t, i, pos)
  \/ \E t \in Tasks : SplitAtAtomicRest(t)
  \/ \E t \in Tasks, i \in Handles : DropAtomic(t, i)
  \/ \E t \in Tasks : DropAtomicRest(t)

InitAtomic == Init /\ disc = "atomic"

SpecAtomic == InitAtomic /\ [][NextAtomic]_vars

\* The u64 values check_range is called with: the small ones, the largest u32
\* and the largest u64 values.
WideArgs == (0 .. MaxLen + 1) \cup {U32Mod - 1} \cup (U64Mod - MaxLen - 1 .. U64Mod - 1)

\* The caller makes one handle, moves its cursors in order and asks
\* check_range about any range.
NextRange ==
  \/ FreeSlots = Handles /\ Constructors
  \/ FreeSlots = Handles \ {1} /\ OrderlyOps(1)
  \/ FreeSlots = Handles \ {1} /\ \E pos, n \in WideArgs : CheckRange(1, pos, n)

SpecRange == InitSingle /\ [][NextRange]_vars

\* The lengths buffers are asked for: the small ones, the largest one allowed,
\* the first one too big, the one of the owned bit, one that is small again as
\* a u32, and the largest uint.
NewLens == (0 .. MaxLen) \cup {MAX_BUFFER_LEN, MAX_BUFFER_LEN + 1, OWNED_MASK,
                                U32Mod + 1, U64Mod - 1}

\* The contents of a buffer of n bytes: any for a small one, n times the same
\* byte for a long one (none are built of one that is too long).
Fresh(n) ==
  IF n > MAX_BUFFER_LEN THEN {<<>>}
  ELSE IF n <= MaxLen THEN Contents(n)
  ELSE {[k \in 1 .. n |-> v] : v \in ByteVals}

\* The caller allocates buffers of any length and drops them.
NextNew ==
  \/ \E n \in NewLens : \E data \in Fresh(n) : New(n, data)
  \/ \E n \in NewLens : \E s \in Fresh(n) : FromSliceCopy(n, s)
  \/ \E i \in Handles : Drop(i)

SpecNew == InitSingle /\ [][NextNew]_vars

\* The caller makes handles, clones, splits and drops them, and asks each
\* whether it is the only one of its allocation.
NextUnique ==
  \/ Room(1) /\ \E n \in RefLens : New(n, Ones(n))
  \/ Room(1) /\ \E n \in RefLens : FromSlice(n, Ones(n))
  \/ Room(1) /\ Empty
  \/ Room(1) /\ \E i \in Handles : Clone(i)
  \/ \E i \in Handles : Drop(i)
  \/ Room(2) /\ \E i \in Handles, pos \in RefArgs : SplitAt(i, pos)
  \/ Room(1) /\ \E i \in Handles, pos \in RefArgs : SplitStartAt(i, pos)
  \/ \E i \in Handles : IsUnique(i)

SpecUnique == Init /\ [][NextUnique]_vars

\* The first task makes an allocation; the tasks pass its handles around and
\* clone and drop them at the same time, all under the nonatomic discipline.
NextRace ==
  \/ FreeSlots = Handles /\ \E n \in RefLens : New(n, Ones(n))
  \/ \E i \in Handles, t \in Tasks : Give(i, t)
  \/ \E t \in Tasks, i \in Handles : CloneNonatomic(t, i)
  \/ \E t \in Tasks : CloneNonatomicRest(t)
  \/ \E t \in Tasks, i \in Handles : DropNonatomic(t, i)
  \/ \E t \in Tasks : DropNonatomicRest(t)

SpecRace == InitSingle /\ [][NextRace]_vars

\* ================================================================= claims
\* The window lies in the limits and the limits in the largest buffer.
CursorsOrdered(h) ==
  /\ lo_min(h) <= h.lo /\ h.lo <= h.hi /\ h.hi <= h.hi_max
  /\ h.hi_max <= MAX_BUFFER_LEN

\* C1: after any sequence of safe public operations every live handle has
\* lo_min <= lo <= hi <= hi_max <= MAX_BUFFER_LEN.
C1_CursorInvariant == \A i \in LiveHandles : CursorsOrdered(hs[i].h)

\* The live owned handles that refer to allocation a.
Owners(a) == {i \in LiveHandles : is_owned(hs[i].h) /\ hs[i].h.buf = a}

\* C2: the refcount in the header of an allocation is the number of live owned
\* handles that refer to it, and a caller's slice, which has no header, is
\* never counted or freed on behalf of the unowned handles on it.
C2_RefcountConservation ==
  \A a \in Allocs :
    /\ heap[a].kind = "heap" => heap[a].refcount = Cardinality(Owners(a))
    /\ heap[a].kind = "slice" => (heap[a].refcount = 0 /\ Owners(a) = {})

\* Two handles share an allocation that a third one, now dropped, shared too,
\* and another allocation has lost all its handles.
C2_Witness ==
  \E a, b \in Allocs :
    /\ heap[a].kind = "heap" /\ heap[a].refcount = 2
    /\ \E i \in Handles : hs[i].st = "dropped" /\ hs[i].h.buf = a
    /\ heap[b].kind = "heap" /\ heap[b].refcount = 0

\* C3 (states): an allocation is freed at most once, it is freed exactly when
\* its refcount is 0, with the length its header records, which is the length
\* it was allocated with, and then no live handle refers to it; a slice is
\* never freed.
Freed(a) ==
  /\ heap[a].deallocs <= 1
  /\ heap[a].deallocs = 1 <=> heap[a].refcount = 0
  /\ heap[a].deallocs = 1 =>
       /\ heap[a].dealloc_len = heap[a].allocation_length
       /\ heap[a].allocation_length = HeaderSize + Len(heap[a].data)
       /\ \A i \in LiveHandles : hs[i].h.buf # a

\* C3 (steps): the call that frees an allocation takes its refcount from 1 to 0.
FreedBy(a) ==
  heap'[a].deallocs # heap[a].deallocs => (heap[a].refcount = 1 /\ heap'[a].refcount = 0)

\* C3: deallocate is invoked once per owned allocation, by the drop or
\* clone_from that takes the refcount from 1 to 0, with the header's
\* allocation length, never while a live handle refers to the allocation and
\* never for a slice.
C3_DeallocateOnce ==
  /\ [](\A a \in Allocs : IF heap[a].kind = "heap" THEN Freed(a) ELSE heap[a].deallocs = 0)
  /\ [][\A a \in Allocs : FreedBy(a)]_vars

\* One allocation was freed by a clone_from and a slice has lost its handles.
C3_Witness ==
  /\ res = "Ok" /\ ~ub
  /\ \E a, b \in Allocs :
       /\ heap[a].kind = "heap" /\ heap[a].deallocs = 1
       /\ \A i \in Handles : hs[i].h.buf = a => hs[i].st = "live"
       /\ heap[b].kind = "slice" /\ \A i \in Handles : hs[i].h.buf = b => hs[i].st = "dropped"

\* No task is inside a call.
Quiescent == \A t \in Tasks : thr.pc[t] = "idle"

\* The handles that tasks are about to free allocation a through.
Freeing(a) == {thr.arg[t][1] : t \in {u \in Tasks : thr.pc[u] = "deallocate"}}
                \cap {i \in Handles : hs[i].h.buf = a}

\* C4: under the atomic discipline, in every interleaving of the tasks' clones,
\* splits and drops no header is touched after it is freed, the refcount is
\* the number of live handles whenever no call is under way, an allocation is
\* freed at most once and exactly when all its handles are dropped, and the
\* task that frees it is the one whose fetch_sub took the refcount to 0, when
\* its handle is the only one left.
C4_AtomicDiscipline ==
  /\ ~ub
  /\ \A a \in Allocs : heap[a].kind = "heap" =>
       /\ heap[a].deallocs <= 1
       /\ heap[a].deallocs = 1 => (heap[a].refcount = 0 /\ Owners(a) = {} /\ Freeing(a) = {})
       /\ Quiescent => /\ heap[a].refcount = Cardinality(Owners(a))
                       /\ heap[a].refcount = 0 <=> heap[a].deallocs = 1
       /\ Freeing(a) # {} => (heap[a].refcount = 0 /\ Owners(a) = Freeing(a)
                               /\ Cardinality(Freeing(a)) = 1)

\* All the handles of an allocation were made and dropped, the last one by a
\* task that did not make the allocation and that is now about to free it.
C4_Witness ==
  /\ thr.pc[1] = "idle"
  /\ \E t \in Tasks \ {1} : thr.pc[t] = "deallocate"
  /\ \A i \in Handles : hs[i].st = "dropped" \/ Freeing(hs[i].h.buf) = {i}

\* C5: a checked operation that returns Err leaves the cursors, the owned bit,
\* the bytes and the refcounts as they were.
C5_ErrChangesNothing == [][res' = "Err" => (hs' = hs /\ heap' = heap)]_vars

\* A checked call has just failed on a handle that was moved before and whose
\* buffer holds bytes.
C5_Witness ==
  /\ res = "Err" /\ hs[1].st = "live"
  /\ hs[1].h.lo > 0 /\ hs[1].h.buf \in Allocs /\ Len(heap[hs[1].h.buf].data) = MaxLen

\* C6: a peek/poke/fill/consume that returns Ok accesses only offsets o with
\* lo <= o < hi at the time of the call, all of them inside the allocation.
C6_AccessInWindow == acc \in {"none", "window"}

\* C7: limits only narrow: over the operations on one handle lo_min never
\* decreases and hi_max never increases.
C7_LimitsOnlyNarrow ==
  [][(hs[1].st = "live" /\ hs'[1].st = "live")
       => (lo_min(hs'[1].h) >= lo_min(hs[1].h) /\ hs'[1].h.hi_max <= hs[1].h.hi_max)]_vars

\* The request (a, d), (b, c) breaks an ordering check on handle h.
BadRequest(h, a, d, b, c) == ~(a <= b /\ b <= c /\ c <= d) \/ a < lo_min(h) \/ d > h.hi_max

\* C8: set_limits_and_window((a, d), (b, c)) returns Err and changes nothing
\* whenever a <= b <= c <= d fails, a < lo_min or d > hi_max.
C8_BadRequestIsErr ==
  [][\A a, d, b, c \in Cur :
       (SetLimitsAndWindow(1, a, d, b, c) /\ BadRequest(hs[1].h, a, d, b, c))
         => (res' = "Err" /\ hs' = hs)]_vars

\* What deep_clone has to give for handle h: the handle c on a region that was
\* free, and h and its region as they were.
DeepCloned(h, c) ==
  /\ hs'[1].h = h
  /\ h.buf \in Allocs => heap'[h.buf] = heap[h.buf]
  /\ heap[c.buf].kind = "free" /\ heap'[c.buf].kind = "heap" /\ heap'[c.buf].refcount = 1
  /\ is_owned(c)
  /\ heap'[c.buf].data = as_limit_slice(heap, h)
  /\ (c.lo - lo_min(c)) = (h.lo - lo_min(h))
  /\ (c.hi - lo_min(c)) = (h.hi - lo_min(h))
  /\ lo_min(c) <= c.lo /\ c.lo <= c.hi /\ c.hi <= c.hi_max
  /\ as_window_slice(heap', c) = as_window_slice(heap, h)

\* C9: deep_clone of a handle h gives a handle on a fresh allocation with
\* refcount 1 that holds h's limits region, leaves h and its refcount alone,
\* keeps lo - lo_min and hi - lo_min, so the clone's window bytes are h's and
\* its cursors are in order.
C9_DeepClone ==
  [][(DeepClone(1) /\ res' = "Ok" /\ ~ub') => DeepCloned(hs[1].h, hs'[ret'[1]].h)]_vars

\* The typed peek of T at the start of the window of handle 1 after the step.
PeekedBE(T) == unsafe_peek_be(T, TypedBytes(heap', hs'[1].h, 0, size_of(T)))
PeekedLE(T) == unsafe_peek_le(T, TypedBytes(heap', hs'[1].h, 0, size_of(T)))

\* C10: for every Prim type T and value t, on a window of at least size_of(T)
\* bytes poke_be(0, t) returns Ok and peek_be::<T>(0) then returns t, and so
\* for poke_le and peek_le.
C10_TypedRoundTrip ==
  [][\A T \in Prims : \A t \in Vals(T) :
       /\ (PokeBE(1, T, 0, t) /\ check_range(hs[1].h, 0, size_of(T)))
            => (res' = "Ok" /\ PeekedBE(T) = <<t>>)
       /\ (PokeLE(1, T, 0, t) /\ check_range(hs[1].h, 0, size_of(T)))
            => (res' = "Ok" /\ PeekedLE(T) = <<t>>)]_vars

\* The value (least significant byte first) whose bytes, most significant
\* first, are w.
BigEndian(w) == [k \in 1 .. Len(w) |-> w[Len(w) + 1 - k]]

\* The bytes at the start of the window of handle 1.
WindowStart(T) == TypedBytes(heap, hs[1].h, 0, size_of(T))

\* C11: for every Prim type T and every content of the window, peek_be::<T>
\* returns the value whose bit pattern is the size_of(T) bytes at pos read most
\* significant byte first and peek_le::<T> the one read least significant byte
\* first, also for a signed T and bytes >= 0x80.
C11_PeekByteOrder ==
  [][\A T \in Prims :
       /\ (PeekBE(1, T, 0) /\ check_range(hs[1].h, 0, size_of(T)))
            => (res' = "Ok" /\ ret' = BigEndian(WindowStart(T)))
       /\ (PeekLE(1, T, 0) /\ check_range(hs[1].h, 0, size_of(T)))
            => (res' = "Ok" /\ ret' = WindowStart(T))]_vars

\* C12: every range-checked operation, the cursor operations and the raw and
\* typed peek/poke/fill/consume of every Prim type, returns Ok or Err for
\* every argument and every reachable handle, and never panics.
C12_NeverPanics == [][(CursorOps(1) \/ IOOps(1)) => res' # "Panic"]_vars

\* What split_at(pos) has to give for handle h: the handles a and b in slots
\* that were free, h as it was, and two more references when h is owned.
SplitInTwo(i, pos, sa, sb) ==
  LET h == hs[i].h
      a == hs'[sa].h
      b == hs'[sb].h
  IN  /\ sa # sb /\ hs[sa].st = "none" /\ hs[sb].st = "none"
      /\ hs'[sa].st = "live" /\ hs'[sb].st = "live"
      /\ a.lo = h.lo /\ a.hi = h.lo + pos
      /\ b.lo = h.lo + pos /\ b.hi = h.hi
      /\ a.buf = h.buf /\ b.buf = h.buf
      /\ a.lo_min_and_owned_bit = h.lo_min_and_owned_bit /\ a.hi_max = h.hi_max
      /\ b.lo_min_and_owned_bit = h.lo_min_and_owned_bit /\ b.hi_max = h.hi_max
      /\ \A k \in Handles \ {sa, sb} : hs'[k] = hs[k]
      /\ IF is_owned(h)
         THEN heap' = [heap EXCEPT ![h.buf].refcount = @ + 2]
         ELSE heap' = heap

\* C13: split_at(pos) with pos <= len() returns (a, b), a with the window
\* [lo, lo+pos) and b with [lo+pos, hi), both with the source's limits; the
\* source is unchanged and, when it is owned, the refcount grows by exactly 2;
\* with pos > len() it returns Err and the refcount is unchanged.
C13_SplitAt ==
  [][\A i \in Handles, pos \in RefArgs :
       SplitAt(i, pos) =>
         IF pos <= len(hs[i].h)
         THEN res' = "Ok" /\ ~ub' /\ Len(ret') = 2 /\ SplitInTwo(i, pos, ret'[1], ret'[2])
         ELSE res' = "Err" /\ hs' = hs /\ heap' = heap]_vars

\* An owned handle was just split in two at a position inside its window, and
\* its allocation counts the three handles.
C13_Witness ==
  /\ res = "Ok" /\ Len(ret) = 2
  /\ hs[ret[1]].h.lo < hs[ret[1]].h.hi
  /\ hs[ret[1]].h.hi = hs[ret[2]].h.lo
  /\ is_owned(hs[ret[1]].h)
  /\ heap[hs[ret[1]].h.buf].refcount = 3

\* The pair split_at(pos) returns for handle h joins again: the first handle
\* is extended by the second, and extend_with gives it the window of h.
Rejoins(h, pos) ==
  LET r == unsafe_split_at(h, pos)
  IN  /\ check_range_u32(h, pos, 0)
      /\ is_extended_by(r.a, r.b)
      /\ r.a.hi = r.b.lo
      /\ extend_with(r.a, r.b).ok
      /\ extend_with(r.a, r.b).h = [r.a EXCEPT !.hi = h.hi]
      /\ extend_with(r.a, r.b).h.lo = h.lo
      /\ len(extend_with(r.a, r.b).h) = len(h)

\* C14: for a handle h with ordered cursors and pos <= h.len(), the pair
\* (a, b) = h.split_at(pos) has a.is_extended_by(&b) and a.hi = b.lo, and
\* a.extend_with(&b) then returns Ok and leaves a with h's window [lo, hi).
C14_SplitReversible ==
  (hs[1].st = "live" /\ CursorsOrdered(hs[1].h))
    => \A pos \in Args : pos <= len(hs[1].h) => Rejoins(hs[1].h, pos)

\* A window of MaxLen bytes was split inside and the first part, extended with
\* the second, has the whole window again.
C14_Witness ==
  /\ res = "Ok" /\ ret = <<>>
  /\ hs[1].st = "live" /\ hs[2].st = "live" /\ hs[3].st = "live"
  /\ len(hs[1].h) = MaxLen
  /\ hs[1].h.lo < hs[3].h.lo /\ hs[3].h.lo < hs[1].h.hi
  /\ hs[2].h.lo = hs[1].h.lo /\ hs[2].h.hi = hs[1].h.hi

\* The handles self and source refer to the same allocation.
SameAllocation(this, source) == this.buf = source.buf /\ is_owned(this) = is_owned(source)

\* C15: clone_from between two handles that refer to the same allocation, in
\* particular a.clone_from(&a), changes no refcount and frees nothing; it only
\* makes self's four cursors equal to source's.
C15_CloneFromSameAllocation ==
  [][\A i, j \in Handles :
       (SameAllocation(hs[i].h, hs[j].h) /\ CloneFrom(i, j))
         => /\ res' = "Ok" /\ ~ub'
            /\ heap' = heap
            /\ hs' = [hs EXCEPT ![i].h.lo_min_and_owned_bit = hs[j].h.lo_min_and_owned_bit,
                                ![i].h.lo = hs[j].h.lo,
                                ![i].h.hi = hs[j].h.hi,
                                ![i].h.hi_max = hs[j].h.hi_max]]_vars

\* Three handles share an owned allocation, and one of them was given the
\* window of another one, which does not start where the allocation starts.
C15_Witness ==
  /\ res = "Ok" /\ ret = <<>>
  /\ \E a \in Allocs :
       /\ heap[a].kind = "heap" /\ heap[a].refcount = 3 /\ Cardinality(Owners(a)) = 3
       /\ \E i, j \in Owners(a) : i # j /\ hs[i].h = hs[j].h /\ hs[i].h.lo > 0

\* What compact() has to give for handle h and the bytes data of its region:
\* the window's bytes at lo_min, every other byte as it was, the cursors moved,
\* and the old window again after rewind() and resize(len).
Compacted(h, data, h2, data2) ==
  /\ h2 = [h EXCEPT !.lo = lo_min(h) + len(h), !.hi = h.hi_max]
  /\ Len(data2) = Len(data)
  /\ \A k \in 1 .. Len(data) :
       data2[k] = IF lo_min(h) < k /\ k <= lo_min(h) + len(h)
                  THEN data[h.lo + k - lo_min(h)] ELSE data[k]
  /\ resize(rewind(h2), len(h)).ok
  /\ len(resize(rewind(h2), len(h)).h) = len(h)
  /\ \A k \in 1 .. len(h) : data2[resize(rewind(h2), len(h)).h.lo + k] = data[h.lo + k]

\* C16: compact() moves the len() bytes of the window to lo_min, also when the
\* two ranges overlap, sets lo = lo_min + len and hi = hi_max and leaves lo_min
\* and hi_max alone; compact(); rewind(); resize(len) gives a window with the
\* bytes the window had before.
C16_Compact ==
  [][Compact(1) =>
       /\ res' = "Ok" /\ ~ub'
       /\ hs[1].h.buf \in Allocs =>
            Compacted(hs[1].h, heap[hs[1].h.buf].data, hs'[1].h, heap'[hs[1].h.buf].data)
       /\ hs[1].h.buf \notin Allocs => (hs'[1].h = compact(hs[1].h) /\ heap' = heap)]_vars

\* C17: check_range(pos, len) returns Ok exactly when the mathematical sum
\* pos + len is at most the window length, for all u64 pos and len, with no
\* wraparound of the sum.
C17_CheckRangeExact ==
  [][\A pos, n \in WideArgs :
       CheckRange(1, pos, n) => (res' = "Ok" <=> pos + n <= len(hs[1].h))]_vars

\* What new(n) has to give when n is not too big: an owned handle h with
\* lo_min = lo = 0 and hi = hi_max = n on a region that was free, whose header
\* has refcount 1 and the length of header and bytes; nothing else changes.
Allocated(n, s) ==
  LET h == hs'[s].h
  IN  /\ hs[s].st = "none" /\ hs'[s].st = "live"
      /\ \A k \in Handles \ {s} : hs'[k] = hs[k]
      /\ is_owned(h) /\ lo_min(h) = 0 /\ h.lo = 0 /\ h.hi = n /\ h.hi_max = n
      /\ h.buf \in Allocs /\ heap[h.buf].kind = "free"
      /\ heap'[h.buf].kind = "heap" /\ heap'[h.buf].deallocs = 0
      /\ heap'[h.buf].refcount = 1
      /\ heap'[h.buf].allocation_length = HeaderSize + n
      /\ Len(heap'[h.buf].data) = n
      /\ \A a \in Allocs \ {h.buf} : heap'[a] = heap[a]

\* C18: new(len) and from_slice_copy abort, without allocating, exactly when
\* len > MAX_BUFFER_LEN; otherwise they return an owned handle with
\* lo_min = lo = 0 and hi = hi_max = len whose header has refcount 1 and
\* allocation_length = header size + len.
C18_NewChecksLength ==
  [][\A n \in NewLens : \A data \in Fresh(n) :
       (New(n, data) \/ FromSliceCopy(n, data)) =>
         IF n > MAX_BUFFER_LEN
         THEN res' = "Panic" /\ hs' = hs /\ heap' = heap
         ELSE res' = "Ok" /\ ~ub' /\ Len(ret') = 1 /\ Allocated(n, ret'[1])]_vars

\* A buffer of the largest length allowed was made after another one.
C18_Witness ==
  /\ res = "Ok" /\ Len(ret) = 1
  /\ hs[ret[1]].st = "live" /\ hs[ret[1]].h.hi_max = MAX_BUFFER_LEN
  /\ heap[hs[ret[1]].h.buf].allocation_length = HeaderSize + MAX_BUFFER_LEN
  /\ \E a \in Allocs \ {hs[ret[1]].h.buf} : heap[a].kind = "heap"

\* What advance(n), extend(n) and resize(n) have to answer on handle h, the
\* sums taken in the integers.
AdvanceContract(h, n) ==
  IF n > len(h) THEN Err(h) ELSE Ok([h EXCEPT !.lo = (h.lo + n) % U32Mod])
ExtendContract(h, n) ==
  IF h.hi + n > h.hi_max THEN Err(h) ELSE Ok([h EXCEPT !.hi = h.hi + n])
ResizeContract(h, n) ==
  IF h.lo + n > h.hi_max THEN Err(h) ELSE Ok([h EXCEPT !.hi = h.lo + n])

\* C19: for every u32 n, advance(n) returns Err iff n > len() and otherwise
\* only does lo += n, extend(n) returns Err iff hi + n > hi_max and otherwise
\* only does hi += n, resize(n) returns Err iff lo + n > hi_max and otherwise
\* only sets hi = lo + n; the sums are compared without wraparound.
C19_AdvanceExtendResize ==
  hs[1].st = "live" =>
    \A n \in Args : /\ advance(hs[1].h, n) = AdvanceContract(hs[1].h, n)
                    /\ extend(hs[1].h, n) = ExtendContract(hs[1].h, n)
                    /\ resize(hs[1].h, n) = ResizeContract(hs[1].h, n)

\* A handle that was advanced and resized: its window is empty and lies
\* strictly inside its limits.
C19_Witness ==
  /\ res = "Ok" /\ ret = <<>> /\ acc = "none"
  /\ hs[1].st = "live" /\ CursorsOrdered(hs[1].h)
  /\ lo_min(hs[1].h) < hs[1].h.lo /\ hs[1].h.lo = hs[1].h.hi /\ hs[1].h.hi < hs[1].h.hi_max

\* The request (a, d), (b, c) lies in the limits of handle h.
InLimits(h, a, d, b, c) == lo_min(h) <= a /\ a <= b /\ b <= c /\ c <= d /\ d <= h.hi_max

\* C20: on a handle with ordered cursors set_limits_and_window((a, d), (b, c))
\* returns Ok and sets lo_min = a, lo = b, hi = c, hi_max = d for every request
\* with lo_min <= a <= b <= c <= d <= hi_max, also when the new window [b, c)
\* extends beyond the current window [lo, hi).
C20_SetWithinLimits ==
  [][\A a, d, b, c \in Cur :
       (/\ CursorsOrdered(hs[1].h)
        /\ InLimits(hs[1].h, a, d, b, c)
        /\ SetLimitsAndWindow(1, a, d, b, c))
         => /\ res' = "Ok"
            /\ lo_min(hs'[1].h) = a /\ hs'[1].h.lo = b
            /\ hs'[1].h.hi = c /\ hs'[1].h.hi_max = d]_vars

\* What split_start_at(pos) has to give for handle i: the new handle in a slot
\* s that was free, handle i advanced, and one more reference when it is owned.
StartSplitOff(i, pos, s) ==
  LET h == hs[i].h
  IN  /\ s # i /\ hs[s].st = "none" /\ hs'[s].st = "live" /\ hs'[i].st = "live"
      /\ hs'[i].h = [h EXCEPT !.lo = h.lo + pos]
      /\ hs'[s].h = [h EXCEPT !.hi = h.lo + pos]
      /\ \A k \in Handles \ {i, s} : hs'[k] = hs[k]
      /\ IF is_owned(h)
         THEN heap' = [heap EXCEPT ![h.buf].refcount = @ + 1]
         ELSE heap' = heap

\* C21: split_start_at(pos) with pos <= len() changes self's window to
\* [lo+pos, hi), hi and the limits unchanged, and returns a new handle with the
\* window [lo, lo+pos) and self's limits; when self is owned the refcount grows
\* by exactly 1; with pos > len() it returns Err and self and the refcount are
\* unchanged.
C21_SplitStartAt ==
  [][\A i \in Handles, pos \in RefArgs :
       SplitStartAt(i, pos) =>
         IF pos <= len(hs[i].h)
         THEN res' = "Ok" /\ ~ub' /\ Len(ret') = 1 /\ StartSplitOff(i, pos, ret'[1])
         ELSE res' = "Err" /\ hs' = hs /\ heap' = heap]_vars

\* The start of an owned handle's window was just split off: the handle
\* returned has a window of bytes that ends where the other handle's begins,
\* and the allocation counts the two.
C21_Witness ==
  /\ res = "Ok" /\ Len(ret) = 1
  /\ hs[ret[1]].st = "live" /\ is_owned(hs[ret[1]].h)
  /\ hs[ret[1]].h.lo < hs[ret[1]].h.hi
  /\ heap[hs[ret[1]].h.buf].refcount = 2
  /\ \E i \in LiveHandles \ {ret[1]} :
       /\ hs[i].h.buf = hs[ret[1]].h.buf
       /\ hs[i].h.lo = hs[ret[1]].h.hi

\* What sub_window(p, n) and sub(p, n) have to answer on handle h: the cursors
\* are u32 sums, the range is compared in the integers.
SubWindowContract(h, p, n) ==
  IF p + n > len(h) THEN Err(h)
  ELSE Ok([h EXCEPT !.lo = (h.lo + p) % U32Mod, !.hi = (h.lo + p + n) % U32Mod])
SubContract(h, p, n) ==
  LET start == (h.lo + p) % U32Mod
      end == (h.lo + p + n) % U32Mod
  IN  IF p + n > len(h) THEN Err(h)
      ELSE Ok([h EXCEPT !.lo_min_and_owned_bit = IF is_owned(h) THEN OWNED_MASK + start ELSE start,
                        !.lo = start, !.hi = end, !.hi_max = end])

\* C22: sub_window(p, n) returns Err iff p + n > len() and otherwise ends with
\* the window [lo+p, lo+p+n) and lo_min and hi_max unchanged, whatever its
\* three steps (resize, flip_hi, resize) pass through; sub(p, n) fails on the
\* same condition and otherwise ends with lo_min = lo = old lo + p and
\* hi = hi_max = old lo + p + n.
C22_SubWindowAndSub ==
  hs[1].st = "live" =>
    \A p, n \in Offs : /\ sub_window(hs[1].h, p, n) = SubWindowContract(hs[1].h, p, n)
                       /\ sub(hs[1].h, p, n) = SubContract(hs[1].h, p, n)

\* The call left every handle as it was.
CursorsKept == hs' = hs

\* The call added k to lo of handle 1 and left everything else of every
\* handle as it was.
LoAdvanced(k) == hs' = [hs EXCEPT ![1].h.lo = @ + k]

\* The call left memory as it was but for the k bytes of handle 1's buffer
\* from offset lo + pos on: no header and no other byte has changed.
OnlyBytesWritten(pos, k) ==
  \A a \in Allocs :
    /\ heap'[a].kind = heap[a].kind
    /\ heap'[a].refcount = heap[a].refcount
    /\ heap'[a].allocation_length = heap[a].allocation_length
    /\ Len(heap'[a].data) = Len(heap[a].data)
    /\ \A o \in 1 .. Len(heap[a].data) :
         heap'[a].data[o] # heap[a].data[o] =>
           /\ a = hs[1].h.buf
           /\ hs[1].h.lo + pos < o /\ o <= hs[1].h.lo + pos + k

\* What peek(0, dst), peek_be::<T>(0) and peek_le::<T>(0) return on handle 1.
Peeked(n) == RawBytes(heap, hs[1].h, 0, n)
PeekedBEBefore(T) == unsafe_peek_be(T, TypedBytes(heap, hs[1].h, 0, size_of(T)))[1]
PeekedLEBefore(T) == unsafe_peek_le(T, TypedBytes(heap, hs[1].h, 0, size_of(T)))[1]

Counted(h, a) == IF is_owned(h) /\ h.buf = a THEN 1 ELSE 0

\* What self.clone_from(source) has to leave of region a: source's reference
\* taken, self's old one given back, and the region freed, with the length in
\* its header, exactly when self's was the last reference to it.
Reassigned(a, this, source) ==
  LET count == heap[a].refcount + Counted(source, a) - Counted(this, a)
      freed == Counted(this, a) = 1 /\ count = 0
  IN  [heap[a] EXCEPT !.refcount = count,
                      !.deallocs = IF freed THEN @ + 1 ELSE @,
                      !.dealloc_len = IF freed THEN heap[a].allocation_length ELSE @]

\* C24: clone_from(source) between handles of different allocations (another
\* pointer or another owned bit) adds 1 to the refcount of source's allocation
\* when source is owned, then takes 1 from the refcount of self's old
\* allocation when self was owned and deallocates it iff that refcount has
\* reached 0, and makes self's pointer, owned bit and cursors those of source:
\* every refcount is again the number of live owned handles of its allocation.
C24_CloneFromOtherAllocation ==
  [][\A i, j \in Handles :
       (~SameAllocation(hs[i].h, hs[j].h) /\ CloneFrom(i, j))
         => /\ res' = "Ok" /\ ~ub'
            /\ hs' = [hs EXCEPT ![i].h = hs[j].h]
            /\ \A a \in Allocs :
                 /\ heap'[a] = Reassigned(a, hs[i].h, hs[j].h)
                 /\ heap[a].kind = "heap" =>
                      heap'[a].refcount =
                        Cardinality({k \in Handles : /\ hs'[k].st = "live"
                                                     /\ Counted(hs'[k].h, a) = 1})]_vars

\* A handle was given the window of a handle of another allocation and was
\* the last one of its own: the old allocation is freed and no handle refers to
\* it any more, the other allocation counts two handles with the same window.
C24_Witness ==
  /\ res = "Ok" /\ ret = <<>> /\ ~ub
  /\ \E a, b \in Allocs :
       /\ a # b
       /\ heap[a].kind = "heap" /\ heap[a].deallocs = 1 /\ heap[a].refcount = 0
       /\ \A i \in Handles : hs[i].st # "none" => hs[i].h.buf # a
       /\ heap[b].kind = "heap" /\ heap[b].refcount = 2
       /\ \E i, j \in Owners(b) : i # j /\ hs[i].h = hs[j].h

\* C25: drop_atomic / drop_nonatomic clears the owned bit of the handle, so a
\* second drop of the same handle neither decrements nor deallocates: each
\* handle takes at most one reference from its allocation, and no sequence of
\* drops frees an allocation twice or takes its refcount below zero.
C25_DropOnce ==
  /\ [](\A a \in Allocs : heap[a].deallocs <= 1 /\ heap[a].refcount <= MaxHandles)
  /\ [](\A i \in Handles : hs[i].st = "dropped" => ~is_owned(hs[i].h))
  /\ [][\A i \in Handles :
          Drop(i) =>
            /\ res' = "Ok" /\ ~ub'
            /\ hs'[i].st = "dropped" /\ ~is_owned(hs'[i].h)
            /\ \A k \in Handles \ {i} : hs'[k] = hs[k]
            /\ \A a \in Allocs :
                 IF hs[i].st = "live" /\ Counted(hs[i].h, a) = 1
                 THEN /\ heap[a].refcount > 0
                      /\ heap'[a] = Reassigned(a, hs[i].h, empty)
                 ELSE heap'[a] = heap[a]]_vars

\* A handle that shared its allocation with a live one was dropped, and one
\* more drop of it changes nothing: the allocation still counts the other
\* handle and is not freed.
C25_Witness ==
  /\ res = "Ok" /\ ret = <<>> /\ ~ub
  /\ \E i \in Handles, a \in Allocs :
       /\ hs[i].st = "dropped" /\ hs[i].h.buf = a
       /\ DecRef(heap, hs[i].h, disc) = heap
       /\ heap[a].kind = "heap" /\ heap[a].refcount = 1 /\ heap[a].deallocs = 0
       /\ Cardinality(Owners(a)) = 1

\* What sub_window_from(pos) and sub_from(pos) have to answer on handle h.
SubWindowFromContract(h, pos) ==
  IF pos > len(h) THEN Err(h) ELSE Ok([h EXCEPT !.lo = (h.lo + pos) % U32Mod])
SubFromContract(h, pos) ==
  IF pos > len(h) THEN Err(h)
  ELSE Ok(narrow([h EXCEPT !.lo = (h.lo + pos) % U32Mod]))

\* C26: sub_window_from(pos) with pos <= len() only drops the first pos bytes
\* of the window: it ends with the window [lo+pos, hi), hi unchanged, which is
\* contained in the old window, also when hi < hi_max before the call; and
\* sub_from(pos) then narrows the limits to [lo+pos, hi).
C26_SubWindowFrom ==
  (hs[1].st = "live" /\ CursorsOrdered(hs[1].h)) =>
    \A pos \in Args : /\ sub_window_from(hs[1].h, pos) = SubWindowFromContract(hs[1].h, pos)
                      /\ sub_from(hs[1].h, pos) = SubFromContract(hs[1].h, pos)

\* Handle i is owned and no other live handle refers to its allocation.
OnlyOwner(i) == is_owned(hs[i].h) /\ Owners(hs[i].h.buf) = {i}

\* C27: is_unique_nonatomic / is_unique_atomic returns true iff the handle is
\* owned and the refcount of its allocation is exactly 1: true right after
\* new, false while a clone or a split result is live, true again on the last
\* handle that remains, and always false for an unowned handle (from_slice,
\* empty).
C27_IsUnique ==
  /\ [][\A i \in Handles :
          IsUnique(i) =>
            /\ res' = "Ok" /\ ~ub' /\ hs' = hs /\ heap' = heap
            /\ ret' = <<Bool(is_owned(hs[i].h) /\ heap[hs[i].h.buf].refcount = 1)>>
            /\ ret' = <<Bool(OnlyOwner(i))>>]_vars
  /\ [][\A n \in RefLens :
          (New(n, Ones(n)) /\ res' = "Ok") => is_unique(heap', hs'[ret'[1]].h)]_vars
  /\ [][\A i \in Handles, pos \in RefArgs :
          ((Clone(i) \/ SplitAt(i, pos) \/ SplitStartAt(i, pos)) /\ res' = "Ok")
            => ~is_unique(heap', hs'[i].h) /\ ~is_unique(heap', hs'[ret'[1]].h)]_vars

\* A handle that shared its allocation with a clone, now dropped, was asked
\* and answered that it is unique.
C27_Witness ==
  /\ res = "Ok" /\ ret = <<Bool(TRUE)>> /\ ~ub
  /\ \E i \in LiveHandles, j \in Handles :
       /\ is_owned(hs[i].h) /\ hs[j].st = "dropped" /\ hs[j].h.buf = hs[i].h.buf
       /\ is_unique(heap, hs[i].h)

\* By how much the refcount of allocation a exceeds the number of live owned
\* handles that refer to it.
Surplus(a) == heap[a].refcount - Cardinality(Owners(a))

\* Task t is about to write a count that it read before another task wrote
\* the same header: its write undoes the other one.
Stale(t) ==
  /\ thr.pc[t] \in {"inc", "dec"}
  /\ thr.arg[t][2] # heap[Reading(t).buf].refcount

\* C28: the nonatomic discipline is safe only when the calls are serialized.
\* A clone_nonatomic or drop_nonatomic that writes the count it read while no
\* other task wrote it keeps the refcount equal to the number of live handles,
\* and while they are equal the allocation is freed exactly when its last
\* handle is dropped; the refcount departs from the number of live handles
\* only by the write of a task that read the count before another task's
\* write (a lost update).  The witness is the state this leads to: the
\* allocation is deallocated while a live handle refers to it.
C28_NonatomicRace ==
  /\ [][\A t \in Tasks :
          ((CloneNonatomicRest(t) \/ DropNonatomicRest(t)) /\ ~Stale(t))
            => ~ub' /\ \A a \in Allocs : Surplus(a)' = Surplus(a)]_vars
  /\ [][\A a \in Allocs :
          Surplus(a)' # Surplus(a) => \E t \in Tasks : Stale(t) /\ thr'.pc[t] = "idle"]_vars
  /\ [](\A a \in Allocs :
          (heap[a].kind = "heap" /\ Surplus(a) = 0)
            => (heap[a].deallocs = 1 <=> Owners(a) = {}) /\ heap[a].deallocs <= 1)

\* Two tasks have cloned and dropped handles of one allocation at the same
\* time and are done: the allocation is deallocated, a live owned handle
\* still refers to it, and its refcount is not the number of live handles.
C28_Witness ==
  /\ Quiescent /\ ~ub /\ res = "Ok"
  /\ \E a \in Allocs :
       /\ heap[a].kind = "heap" /\ heap[a].deallocs = 1
       /\ Owners(a) # {}
       /\ heap[a].refcount # Cardinality(Owners(a))

====
